---- MODULE Spec2Model ----
(***************************************************************************)
(* HealthChain backend (src/index.js): consent-gated storage of encrypted *)
(* records with an in-memory audit trail and a ledger file on disk.        *)
(*                                                                         *)
(* Every Express route handler is one action.  Node runs a handler to      *)
(* completion (all file-system calls are the synchronous ones), so a       *)
(* handler is one atomic step.  Timestamps (nowIso) are left out: no       *)
(* handler reads one back.  Values drawn from crypto.randomBytes (the      *)
(* transaction ID, the record ID, the IV, multer's file name) are fresh    *)
(* values, numbered in the order they are drawn.                           *)
(***************************************************************************)
EXTENDS Integers, Sequences, FiniteSets, TLC

\* ---- bounds -------------------------------------------------------------
MaxTx == 3         \* transaction IDs drawn in one run of Spec
MaxTxRevoke == 5   \* ... of SpecRevoke
MaxTxFault == 2    \* ... of SpecFault
MaxTxRestart == 3  \* ... of SpecRestart
MaxRecordsRevoke == 1  \* uploads in one run of SpecRevoke
MaxRecordsFault == 1   \* ... of SpecFault
MaxRecords == 2   \* uploads that reach encryption in one run
MaxBoots == 2     \* process starts in one run (SpecRestart)
MaxTxRoundTrip == 4       \* transaction IDs drawn in one run of SpecRoundTrip
MaxRecordsRoundTrip == 2  \* uploads in one run of SpecRoundTrip
MaxTxList == 5       \* transaction IDs drawn in one run of SpecList
MaxRecordsList == 2  \* uploads in one run of SpecList
MaxTxTotal == 3      \* transaction IDs drawn in one run of SpecTotal
MaxTxDecrypt == 3       \* transaction IDs drawn in one run of SpecDecrypt
MaxRecordsDecrypt == 1  \* uploads in one run of SpecDecrypt
MaxTxDownload == 3       \* transaction IDs drawn in one run of SpecDownload
MaxRecordsDownload == 1  \* uploads in one run of SpecDownload

\* ---- inputs -------------------------------------------------------------
NoId == ""        \* a missing or empty identifier (falsy in JavaScript)
NoFile == "<no file>"
PatientIds == {"pat-1", "pat-2"}
ProviderIds == {"doc-1", "doc-2"}
\* let patients, let providers: the identifiers of the demo lists
patients == {"pat-1"}
providers == {"doc-1"}
Payloads == {"hello"}
Garbled == "<garbled>"
AllPatients == PatientIds \cup {NoId}
AllProviders == ProviderIds \cup {NoId}
AllFiles == Payloads \cup {NoFile}
UnknownRecordId == 0

\* Points at which a file-system call of a handler may fail.
NoFault == {"none"}
Faults == {"none", "readLedger", "writeLedger", "readTmp", "writeBlob",
           "unlinkTmp", "readBlob"}

VARIABLES
  consents,    \* let consents: sequence of [patientId, providerId, granted]
  records,     \* let records: sequence of record metadata
  audit,       \* let audit: sequence of [txId, action, actor, target]
  ledgerFile,  \* parsed content of ledger.json
  uploads,     \* the .enc files under uploads/: file name -> {iv, data}
  encKey,      \* ENC_KEY, the key of the running process (its start number)
  nextTx,      \* transaction IDs drawn so far
  nextFile,    \* uploads encrypted so far
  response     \* the response to the latest request

vars == <<consents, records, audit, ledgerFile, uploads, encKey, nextTx,
          nextFile, response>>

\* ---- helpers ------------------------------------------------------------
\* Mutant: every call gets the same transaction ID.
newTxId_Reused(n) == 1

newTxId(n) == n + 1

encryptBuffer(buffer, key, iv) ==
  [iv |-> iv, data |-> [key |-> key, iv |-> iv, plain |-> buffer, sound |-> TRUE]]

\* decipher.final() throws on bad padding; a ciphertext that is not the
\* output of encryptBuffer under this key either throws or (when the padding
\* happens to check, `luck`) yields other bytes.  CBC with the right key and
\* another IV yields other bytes.
decryptBuffer(hexData, hexIv, key, luck) ==
  IF hexData.sound /\ hexData.key = key
  THEN [threw |-> FALSE,
        bytes |-> IF hexData.iv = hexIv THEN hexData.plain ELSE Garbled]
  ELSE IF luck THEN [threw |-> FALSE, bytes |-> Garbled]
       ELSE [threw |-> TRUE, bytes |-> Garbled]

readLedger(file, fault) == IF fault = "readLedger" THEN <<>> ELSE file

\* Mutant: the failure of the ledger write is caught and dropped.
ledgerThrows_Swallowed(fault) == FALSE

\* fs.writeFileSync throwing leaves the handler through the exception.
ledgerThrows(fault) == fault = "writeLedger"

\* Mutant: the append works on a copy of the file read before the latest
\* append was written (two read-modify-write cycles interleaved).
addToLedger_StaleRead(file, entry, fault) ==
  IF fault = "writeLedger" THEN file
  ELSE IF Len(readLedger(file, fault)) = 0 THEN <<entry>>
  ELSE Append(SubSeq(readLedger(file, fault), 1, Len(file) - 1), entry)

\* Mutant: the new entry is put in front (unshift for push).
addToLedger_Prepends(file, entry, fault) ==
  IF fault = "writeLedger" THEN file
  ELSE <<entry>> \o readLedger(file, fault)

addToLedger(file, entry, fault) ==
  IF fault = "writeLedger" THEN file
  ELSE Append(readLedger(file, fault), entry)

\* Mutant: the ledger file is written anew at every start.
startupLedger_Recreates(exists, file) == <<>>

\* Module start: ledger.json is created only when it does not exist.
startupLedger(exists, file) == IF ~exists THEN <<>> ELSE file

\* Mutant: the check forgets the provider.
hasConsent_AnyProvider(cs, patientId, providerId) ==
  \E i \in 1..Len(cs) : cs[i].patientId = patientId /\ cs[i].granted = TRUE

\* Mutant: the check forgets the granted flag.
hasConsent_IgnoresGranted(cs, patientId, providerId) ==
  \E i \in 1..Len(cs) : cs[i].patientId = patientId /\ cs[i].providerId = providerId

\* consents.some(c => c.patientId === p && c.providerId === r && c.granted === true)
hasConsent(cs, patientId, providerId) ==
  \E i \in 1..Len(cs) : /\ cs[i].patientId = patientId
                        /\ cs[i].providerId = providerId
                        /\ cs[i].granted = TRUE

\* Mutant: the pair's earlier entry is not removed.
setConsent_KeepsOld(cs, patientId, providerId, granted) ==
  Append(cs, [patientId |-> patientId, providerId |-> providerId, granted |-> granted])

\* Mutant: the filter drops every entry of the patient, whoever the provider.
setConsent_FiltersByPatient(cs, patientId, providerId, granted) ==
  Append(SelectSeq(cs, LAMBDA c : c.patientId # patientId),
         [patientId |-> patientId, providerId |-> providerId, granted |-> granted])

\* consents.filter(not the pair) followed by consents.push(the pair)
setConsent(cs, patientId, providerId, granted) ==
  Append(SelectSeq(cs, LAMBDA c : ~(c.patientId = patientId /\ c.providerId = providerId)),
         [patientId |-> patientId, providerId |-> providerId, granted |-> granted])

\* ---- responses ----------------------------------------------------------
NoResponse == [status |-> 0, kind |-> "none", error |-> "", tx |-> 0, body |-> <<>>]
Failure(status, error) ==
  [status |-> status, kind |-> "error", error |-> error, tx |-> 0, body |-> <<>>]
\* Express's default error handler, for an exception no handler catches.
Unhandled == Failure(500, "Internal Server Error")
OkTx(tx) == [status |-> 200, kind |-> "tx", error |-> "", tx |-> tx, body |-> <<>>]
OkRecord(rec, tx) ==
  [status |-> 200, kind |-> "record", error |-> "", tx |-> tx, body |-> <<rec>>]
OkRecords(recs, tx) ==
  [status |-> 200, kind |-> "records", error |-> "", tx |-> tx, body |-> recs]
OkBytes(bytes) ==
  [status |-> 200, kind |-> "bytes", error |-> "", tx |-> 0, body |-> <<bytes>>]

Init ==
  /\ consents = <<>>
  /\ records = <<>>
  /\ audit = <<>>
  /\ ledgerFile = startupLedger(FALSE, <<>>)
  /\ uploads = <<>>
  /\ encKey = 1
  /\ nextTx = 0
  /\ nextFile = 0
  /\ response = NoResponse

\* ---- routes -------------------------------------------------------------
\* Mutant: an identifier that is not in the patient or provider list is
\* refused like a missing one.
changeConsent_KnownOnly(patientId, providerId, granted, fault) ==
  IF patientId \notin patients \/ providerId \notin providers
  THEN /\ response' = Failure(400, "patientId & providerId required")
       /\ UNCHANGED <<consents, records, audit, ledgerFile, uploads, encKey,
                      nextTx, nextFile>>
  ELSE /\ LET tx == newTxId(nextTx)
          IN /\ nextTx' = tx
             /\ consents' = setConsent(consents, patientId, providerId, granted)
             /\ audit' = Append(audit,
                  [txId |-> tx,
                   action |-> IF granted THEN "GRANT_CONSENT" ELSE "REVOKE_CONSENT",
                   actor |-> patientId, target |-> providerId])
             /\ ledgerFile' = addToLedger(ledgerFile,
                  [type |-> IF granted THEN "CONSENT_GRANTED" ELSE "CONSENT_REVOKED",
                   patientId |-> patientId, providerId |-> providerId, tx |-> tx],
                  fault)
             /\ response' = IF ledgerThrows(fault) THEN Unhandled ELSE OkTx(tx)
       /\ UNCHANGED <<records, uploads, encKey, nextFile>>

\* Mutant: the registry is updated and the call answered, the audit and
\* ledger entries being left for later.
changeConsent_LogsLater(patientId, providerId, granted, fault) ==
  IF patientId = NoId \/ providerId = NoId
  THEN /\ response' = Failure(400, "patientId & providerId required")
       /\ UNCHANGED <<consents, records, audit, ledgerFile, uploads, encKey,
                      nextTx, nextFile>>
  ELSE /\ nextTx' = newTxId(nextTx)
       /\ consents' = setConsent(consents, patientId, providerId, granted)
       /\ response' = OkTx(newTxId(nextTx))
       /\ UNCHANGED <<records, audit, ledgerFile, uploads, encKey, nextFile>>

\* POST /api/consent/grant and POST /api/consent/revoke
changeConsent(patientId, providerId, granted, fault) ==
  IF patientId = NoId \/ providerId = NoId
  THEN /\ response' = Failure(400, "patientId & providerId required")
       /\ UNCHANGED <<consents, records, audit, ledgerFile, uploads, encKey,
                      nextTx, nextFile>>
  ELSE /\ LET tx == newTxId(nextTx)
          IN /\ nextTx' = tx
             /\ consents' = setConsent(consents, patientId, providerId, granted)
             /\ audit' = Append(audit,
                  [txId |-> tx,
                   action |-> IF granted THEN "GRANT_CONSENT" ELSE "REVOKE_CONSENT",
                   actor |-> patientId, target |-> providerId])
             /\ ledgerFile' = addToLedger(ledgerFile,
                  [type |-> IF granted THEN "CONSENT_GRANTED" ELSE "CONSENT_REVOKED",
                   patientId |-> patientId, providerId |-> providerId, tx |-> tx],
                  fault)
             /\ response' = IF ledgerThrows(fault) THEN Unhandled ELSE OkTx(tx)
       /\ UNCHANGED <<records, uploads, encKey, nextFile>>

grantConsent(patientId, providerId, fault) ==
  changeConsent(patientId, providerId, TRUE, fault)

revokeConsent(patientId, providerId, fault) ==
  changeConsent(patientId, providerId, FALSE, fault)

\* POST /api/add-record (multer has stored the upload in a temp file)
addRecord(patientId, providerId, file, fault) ==
  LET frame == UNCHANGED <<consents, records, audit, ledgerFile, uploads, encKey,
                           nextTx, nextFile>>
      serverError == Failure(500, "server error")
  IN
  IF patientId = NoId \/ providerId = NoId
  THEN /\ response' = IF file # NoFile /\ fault = "unlinkTmp" THEN serverError
                      ELSE Failure(400, "patientId & providerId required")
       /\ frame
  ELSE IF file = NoFile
  THEN /\ response' = Failure(400, "file required")
       /\ frame
  ELSE IF ~hasConsent(consents, patientId, providerId)
  THEN /\ response' = IF fault = "unlinkTmp" THEN serverError
                      ELSE Failure(403, "access denied: no active consent")
       /\ frame
  ELSE IF fault \in {"readTmp", "writeBlob"}
  THEN /\ response' = serverError
       /\ frame
  ELSE /\ LET n == nextFile + 1
              encrypted == encryptBuffer(file, encKey, n)
              rec == [recordId |-> n, patientId |-> patientId,
                      providerId |-> providerId, filename |-> n,
                      iv |-> encrypted.iv]
          IN /\ nextFile' = n
             /\ uploads' = Append(uploads, encrypted)
             /\ IF fault = "unlinkTmp"
                THEN /\ response' = serverError
                     /\ UNCHANGED <<records, audit, ledgerFile, nextTx>>
                ELSE /\ LET tx == newTxId(nextTx)
                        IN /\ nextTx' = tx
                           /\ records' = Append(records, rec)
                           /\ audit' = Append(audit,
                                [txId |-> tx, action |-> "ADD_RECORD",
                                 actor |-> providerId, target |-> rec.recordId])
                           /\ ledgerFile' = addToLedger(ledgerFile,
                                [type |-> "RECORD_ADDED", recordId |-> rec.recordId,
                                 tx |-> tx], fault)
                           /\ response' = IF ledgerThrows(fault) THEN serverError
                                          ELSE OkRecord(rec, tx)
       /\ UNCHANGED <<consents, encKey>>

\* Mutant: the filter on the patient is left out.
recordsOf_Unfiltered(recs, patientId) ==
  [i \in 1..Len(recs) |->
     [recordId |-> recs[i].recordId, patientId |-> recs[i].patientId,
      providerId |-> recs[i].providerId, filename |-> recs[i].filename]]

\* records.filter(r => r.patientId === patientId).map(drop the iv)
recordsOf(recs, patientId) ==
  LET mine == SelectSeq(recs, LAMBDA r : r.patientId = patientId)
  IN [i \in 1..Len(mine) |->
        [recordId |-> mine[i].recordId, patientId |-> mine[i].patientId,
         providerId |-> mine[i].providerId, filename |-> mine[i].filename]]

\* Mutant: the access is audited before the consent check.
listRecords_AuditsBeforeCheck(patientId, providerId, fault) ==
  LET tx == newTxId(nextTx)
  IN /\ nextTx' = tx
     /\ audit' = Append(audit,
          [txId |-> tx, action |-> "READ_RECORDS",
           actor |-> providerId, target |-> patientId])
     /\ IF ~hasConsent(consents, patientId, providerId)
        THEN /\ response' = Failure(403, "no consent")
             /\ UNCHANGED ledgerFile
        ELSE /\ ledgerFile' = addToLedger(ledgerFile,
                  [type |-> "READ_RECORDS", patientId |-> patientId,
                   providerId |-> providerId, tx |-> tx], fault)
             /\ response' = IF ledgerThrows(fault) THEN Unhandled
                            ELSE OkRecords(recordsOf(records, patientId), tx)
     /\ UNCHANGED <<consents, records, uploads, encKey, nextFile>>

\* GET /api/records/:patientId/:providerId
listRecords(patientId, providerId, fault) ==
  IF ~hasConsent(consents, patientId, providerId)
  THEN /\ response' = Failure(403, "no consent")
       /\ UNCHANGED <<consents, records, audit, ledgerFile, uploads, encKey,
                      nextTx, nextFile>>
  ELSE /\ LET tx == newTxId(nextTx)
          IN /\ nextTx' = tx
             /\ audit' = Append(audit,
                  [txId |-> tx, action |-> "READ_RECORDS",
                   actor |-> providerId, target |-> patientId])
             /\ ledgerFile' = addToLedger(ledgerFile,
                  [type |-> "READ_RECORDS", patientId |-> patientId,
                   providerId |-> providerId, tx |-> tx], fault)
             /\ response' = IF ledgerThrows(fault) THEN Unhandled
                            ELSE OkRecords(recordsOf(records, patientId), tx)
       /\ UNCHANGED <<consents, records, uploads, encKey, nextFile>>

\* Mutant: the lookup answers the latest record whenever the ID is known.
findRecord_Latest(recs, recordId) ==
  IF \E i \in 1..Len(recs) : recs[i].recordId = recordId THEN Len(recs) ELSE 0

\* records.find(r => r.recordId === recordId): the first match, 0 when none
findRecord(recs, recordId) ==
  LET hits == {i \in 1..Len(recs) : recs[i].recordId = recordId}
  IN IF hits = {} THEN 0 ELSE CHOOSE i \in hits : \A j \in hits : i <= j

\* fs.existsSync(encPath): a deleted blob is an empty slot
blobExists(files, filename) ==
  filename \in 1..Len(files) /\ files[filename].iv # 0

\* Mutant: the blob is looked for before the consent is checked.
decryptRecord_BlobFirst(recordId, providerId, fault, luck) ==
  LET frame == UNCHANGED <<consents, records, audit, ledgerFile, uploads, encKey,
                           nextTx, nextFile>>
      at == findRecord(records, recordId)
  IN
  IF providerId = NoId
  THEN /\ response' = Failure(400, "providerId query param required")
       /\ frame
  ELSE IF at = 0
  THEN /\ response' = Failure(404, "record not found")
       /\ frame
  ELSE IF ~blobExists(uploads, records[at].filename)
  THEN /\ response' = Failure(404, "encrypted file missing")
       /\ frame
  ELSE IF ~hasConsent(consents, records[at].patientId, providerId)
  THEN /\ response' = Failure(403, "access denied: no active consent")
       /\ frame
  ELSE LET encrypted == uploads[records[at].filename]
           decrypted == decryptBuffer(encrypted.data, encrypted.iv, encKey, luck)
       IN IF fault = "readBlob" \/ decrypted.threw
          THEN /\ response' = Failure(500, "decryption failed")
               /\ frame
          ELSE /\ LET tx == newTxId(nextTx)
                  IN /\ nextTx' = tx
                     /\ audit' = Append(audit,
                          [txId |-> tx, action |-> "DOWNLOAD_DECRYPT",
                           actor |-> providerId, target |-> recordId])
                     /\ ledgerFile' = addToLedger(ledgerFile,
                          [type |-> "DOWNLOAD_DECRYPT", recordId |-> recordId,
                           tx |-> tx, actor |-> providerId], fault)
                     /\ response' = IF ledgerThrows(fault)
                                    THEN Failure(500, "decryption failed")
                                    ELSE OkBytes(decrypted.bytes)
               /\ UNCHANGED <<consents, records, uploads, encKey, nextFile>>

\* GET /api/decrypt/:recordId?providerId=
decryptRecord(recordId, providerId, fault, luck) ==
  LET frame == UNCHANGED <<consents, records, audit, ledgerFile, uploads, encKey,
                           nextTx, nextFile>>
      at == findRecord(records, recordId)
  IN
  IF providerId = NoId
  THEN /\ response' = Failure(400, "providerId query param required")
       /\ frame
  ELSE IF at = 0
  THEN /\ response' = Failure(404, "record not found")
       /\ frame
  ELSE IF ~hasConsent(consents, records[at].patientId, providerId)
  THEN /\ response' = Failure(403, "access denied: no active consent")
       /\ frame
  ELSE IF ~blobExists(uploads, records[at].filename)
  THEN /\ response' = Failure(404, "encrypted file missing")
       /\ frame
  ELSE LET encrypted == uploads[records[at].filename]
           decrypted == decryptBuffer(encrypted.data, encrypted.iv, encKey, luck)
       IN IF fault = "readBlob" \/ decrypted.threw
          THEN /\ response' = Failure(500, "decryption failed")
               /\ frame
          ELSE /\ LET tx == newTxId(nextTx)
                  IN /\ nextTx' = tx
                     /\ audit' = Append(audit,
                          [txId |-> tx, action |-> "DOWNLOAD_DECRYPT",
                           actor |-> providerId, target |-> recordId])
                     /\ ledgerFile' = addToLedger(ledgerFile,
                          [type |-> "DOWNLOAD_DECRYPT", recordId |-> recordId,
                           tx |-> tx, actor |-> providerId], fault)
                     /\ response' = IF ledgerThrows(fault)
                                    THEN Failure(500, "decryption failed")
                                    ELSE OkBytes(decrypted.bytes)
               /\ UNCHANGED <<consents, records, uploads, encKey, nextFile>>

\* ---- the environment ----------------------------------------------------
\* An encrypted blob disappears from uploads/ (what existsSync then reports).
deleteBlob(filename) ==
  /\ blobExists(uploads, filename)
  /\ uploads' = [uploads EXCEPT ![filename] =
                   [iv |-> 0, data |-> [key |-> 0, iv |-> 0, plain |-> Garbled,
                                        sound |-> FALSE]]]
  /\ UNCHANGED <<consents, records, audit, ledgerFile, encKey, nextTx, nextFile,
                 response>>

\* An encrypted blob is altered on disk (what readFileSync then returns).
corruptBlob(filename) ==
  /\ blobExists(uploads, filename)
  /\ uploads[filename].data.sound
  /\ uploads' = [uploads EXCEPT ![filename].data.sound = FALSE]
  /\ UNCHANGED <<consents, records, audit, ledgerFile, encKey, nextTx, nextFile,
                 response>>

\* Mutant: the consent registry outlives the process.
restart_KeepsConsents ==
  /\ encKey' = encKey + 1
  /\ records' = <<>>
  /\ audit' = <<>>
  /\ ledgerFile' = startupLedger(TRUE, ledgerFile)
  /\ response' = NoResponse
  /\ UNCHANGED <<consents, uploads, nextTx, nextFile>>

\* The process is started again: the module's top level runs anew.
restart ==
  /\ encKey' = encKey + 1
  /\ consents' = <<>>
  /\ records' = <<>>
  /\ audit' = <<>>
  /\ ledgerFile' = startupLedger(TRUE, ledgerFile)
  /\ response' = NoResponse
  /\ UNCHANGED <<uploads, nextTx, nextFile>>

\* ---- specifications -----------------------------------------------------
\* The file-system calls a route makes, among the failing points F.
LedgerFaults == {"none", "readLedger", "writeLedger"}
UploadFaults == LedgerFaults \cup {"readTmp", "writeBlob", "unlinkTmp"}
DownloadFaults == LedgerFaults \cup {"readBlob"}

\* A run draws at most maxTx transaction IDs, stores at most maxRec uploads
\* and starts the process at most MaxBoots times.
Bounded(maxTx, maxRec) ==
  nextTx' <= maxTx /\ nextFile' <= maxRec /\ encKey' <= MaxBoots

\* One request with identifiers from P and R, its file-system calls failing
\* at the points in F.
Request(F, P, R, maxTx, maxRec) ==
  \/ \E p \in P, r \in R, f \in F \cap LedgerFaults :
       grantConsent(p, r, f) /\ Bounded(maxTx, maxRec)
  \/ \E p \in P, r \in R, f \in F \cap LedgerFaults :
       revokeConsent(p, r, f) /\ Bounded(maxTx, maxRec)
  \/ \E p \in P, r \in R, file \in AllFiles, f \in F \cap UploadFaults :
       addRecord(p, r, file, f) /\ Bounded(maxTx, maxRec)
  \/ \E p \in P \ {NoId}, r \in R \ {NoId}, f \in F \cap LedgerFaults :
       listRecords(p, r, f) /\ Bounded(maxTx, maxRec)
  \/ \E id \in {UnknownRecordId} \cup (1..nextFile), r \in R,
        f \in F \cap DownloadFaults, luck \in BOOLEAN :
       decryptRecord(id, r, f, luck) /\ Bounded(maxTx, maxRec)

Environment ==
  \/ \E n \in 1..Len(uploads) : deleteBlob(n)
  \/ \E n \in 1..Len(uploads) : corruptBlob(n)

\* A working file system, one process, identifiers present.
Next ==
  \/ Request(NoFault, PatientIds, ProviderIds, MaxTx, MaxRecords)
  \/ Environment
Spec == Init /\ [][Next]_vars

\* One patient and two providers, in longer runs.
NextRevoke ==
  Request(NoFault, {"pat-1"}, ProviderIds, MaxTxRevoke, MaxRecordsRevoke)
SpecRevoke == Init /\ [][NextRevoke]_vars

\* File-system calls may fail, identifiers may be missing.
NextFault ==
  \/ Request(Faults, {"pat-1", NoId}, AllProviders, MaxTxFault, MaxRecordsFault)
  \/ Environment
SpecFault == Init /\ [][NextFault]_vars

\* A working file system, the process may be restarted.
NextRestart ==
  \/ Request(NoFault, {"pat-1"}, {"doc-1"}, MaxTxRestart, MaxRecords)
  \/ restart /\ Bounded(MaxTxRestart, MaxRecords)
SpecRestart == Init /\ [][NextRestart]_vars

\* Uploads of different contents by the providers of one patient.
TwoPayloads == {"hello", "world"}
NextRoundTrip ==
  \/ \E r \in ProviderIds :
       grantConsent("pat-1", r, "none")
         /\ Bounded(MaxTxRoundTrip, MaxRecordsRoundTrip)
  \/ \E r \in ProviderIds :
       revokeConsent("pat-1", r, "none")
         /\ Bounded(MaxTxRoundTrip, MaxRecordsRoundTrip)
  \/ \E r \in ProviderIds, file \in TwoPayloads :
       addRecord("pat-1", r, file, "none")
         /\ Bounded(MaxTxRoundTrip, MaxRecordsRoundTrip)
  \/ \E id \in 1..nextFile, r \in ProviderIds :
       decryptRecord(id, r, "none", FALSE)
         /\ Bounded(MaxTxRoundTrip, MaxRecordsRoundTrip)
SpecRoundTrip == Init /\ [][NextRoundTrip]_vars

\* Two patients and two providers, the second patient dealing with one of
\* them only: consent changes, uploads and listings.
ListPairs == {<<"pat-1", "doc-1">>, <<"pat-1", "doc-2">>, <<"pat-2", "doc-2">>}
NextList ==
  \/ \E pr \in ListPairs :
       grantConsent(pr[1], pr[2], "none") /\ Bounded(MaxTxList, MaxRecordsList)
  \/ \E pr \in ListPairs :
       revokeConsent(pr[1], pr[2], "none") /\ Bounded(MaxTxList, MaxRecordsList)
  \/ \E pr \in ListPairs, file \in Payloads :
       addRecord(pr[1], pr[2], file, "none") /\ Bounded(MaxTxList, MaxRecordsList)
  \/ \E pr \in ListPairs :
       listRecords(pr[1], pr[2], "none") /\ Bounded(MaxTxList, MaxRecordsList)
SpecList == Init /\ [][NextList]_vars

\* Consent changes only, with identifiers in the lists, outside them, missing.
NextTotal ==
  \/ \E p \in AllPatients, r \in AllProviders :
       grantConsent(p, r, "none") /\ Bounded(MaxTxTotal, 0)
  \/ \E p \in AllPatients, r \in AllProviders :
       revokeConsent(p, r, "none") /\ Bounded(MaxTxTotal, 0)
SpecTotal == Init /\ [][NextTotal]_vars

\* One patient; the provider may be missing, the record unknown, the blob
\* deleted or altered.
NextDecrypt ==
  \/ Request(NoFault, {"pat-1"}, AllProviders, MaxTxDecrypt, MaxRecordsDecrypt)
  \/ Environment
SpecDecrypt == Init /\ [][NextDecrypt]_vars

\* One patient and one provider; the file-system calls of a download may
\* fail, the blob may be deleted or altered.
NextDownload ==
  \/ Request(DownloadFaults, {"pat-1"}, {"doc-1"}, MaxTxDownload, MaxRecordsDownload)
  \/ Environment
SpecDownload == Init /\ [][NextDownload]_vars

\* ---- vocabulary of the claims -------------------------------------------

\* The step is the call named, with these arguments.
GrantCall(p, r) == \E f \in LedgerFaults : grantConsent(p, r, f)
RevokeCall(p, r) == \E f \in LedgerFaults : revokeConsent(p, r, f)
AddCall(p, r) == \E file \in AllFiles, f \in UploadFaults : addRecord(p, r, file, f)
ListCall(p, r) == \E f \in LedgerFaults : listRecords(p, r, f)
DecryptCall(id, r) ==
  \E f \in DownloadFaults, luck \in BOOLEAN : decryptRecord(id, r, f, luck)
AnyCall ==
  \/ \E p \in AllPatients, r \in AllProviders :
       GrantCall(p, r) \/ RevokeCall(p, r) \/ AddCall(p, r) \/ ListCall(p, r)
  \/ \E id \in 0..nextFile, r \in AllProviders : DecryptCall(id, r)

Succeeded(resp) == resp.status = 200
TxOfAudit(a) == {a[i].txId : i \in 1..Len(a)}
TxOfLedger(l) == {l[i].tx : i \in 1..Len(l)}
IsPrefix(s, t) == Len(s) <= Len(t) /\ SubSeq(t, 1, Len(s)) = s

\* The registry holds an entry for exactly (p, r) with granted = true.
GrantEntry(p, r) ==
  \E i \in 1..Len(consents) :
     consents[i] = [patientId |-> p, providerId |-> r, granted |-> TRUE]

\* ---- C1 -----------------------------------------------------------------
\* C1: a record is written (addRecord succeeds) or disclosed (listRecords or
\* decryptRecord succeeds) for patient p on behalf of provider r only if the
\* registry holds, at that moment, an entry for exactly (p, r) with granted =
\* true; and the record store grows by no other step.
C1_ConsentGatesEveryAccess ==
  [][ /\ Succeeded(response') =>
           /\ \A p \in AllPatients, r \in AllProviders :
                AddCall(p, r) \/ ListCall(p, r) => GrantEntry(p, r)
           /\ \A id \in 0..nextFile, r \in AllProviders :
                DecryptCall(id, r) =>
                  \E i \in 1..Len(records) :
                     records[i].recordId = id /\ GrantEntry(records[i].patientId, r)
      /\ records' # records =>
           \E p \in PatientIds, r \in ProviderIds :
              /\ GrantEntry(p, r)
              /\ Len(records') = Len(records) + 1
              /\ SubSeq(records', 1, Len(records)) = records
              /\ records'[Len(records')].patientId = p
              /\ records'[Len(records')].providerId = r
    ]_vars

\* A decrypt has succeeded for a provider while another pair of the same
\* patient and another pair of the same provider are not granted.
C1_Witness ==
  /\ Succeeded(response) /\ response.kind = "bytes"
  /\ Len(records) > 0
  /\ \E p \in PatientIds, q \in PatientIds, r \in ProviderIds, s \in ProviderIds :
       /\ q # p /\ s # r
       /\ records[1].patientId = p
       /\ audit[Len(audit)].action = "DOWNLOAD_DECRYPT"
       /\ audit[Len(audit)].actor = r
       /\ GrantEntry(p, r) /\ ~GrantEntry(p, s) /\ ~GrantEntry(q, r)

\* ---- C2 -----------------------------------------------------------------
\* C2: no pair is active at the start; isActive(p, r) changes only in a
\* grantConsent(p, r) call (to true) or a revokeConsent(p, r) call (to false),
\* no grantConsent(p, r) call leaves it false and no revokeConsent(p, r) call
\* leaves it true: isActive(p, r) is the boolean of the last grant/revoke call
\* for exactly that pair, and false when there was none.
C2_IsActiveFollowsLastCall ==
  /\ \A p \in PatientIds, r \in ProviderIds : ~hasConsent(consents, p, r)
  /\ [][ \A p \in PatientIds, r \in ProviderIds :
           IF hasConsent(consents', p, r)
           THEN /\ ~RevokeCall(p, r)
                /\ ~hasConsent(consents, p, r) => GrantCall(p, r)
           ELSE /\ ~GrantCall(p, r)
                /\ hasConsent(consents, p, r) => RevokeCall(p, r)
      ]_vars

\* A pair was granted, revoked and granted again.
C2_Witness ==
  \E p \in PatientIds, r \in ProviderIds :
    /\ Len(audit) >= 3
    /\ audit[1].action = "GRANT_CONSENT" /\ audit[1].actor = p /\ audit[1].target = r
    /\ audit[2].action = "REVOKE_CONSENT" /\ audit[2].actor = p /\ audit[2].target = r
    /\ audit[3].action = "GRANT_CONSENT" /\ audit[3].actor = p /\ audit[3].target = r
    /\ hasConsent(consents, p, r)

\* ---- C3 -----------------------------------------------------------------
\* The registry's entry for (p, r) says revoked.
RevokedEntry(p, r) ==
  /\ ~GrantEntry(p, r)
  /\ \E i \in 1..Len(consents) :
        consents[i] = [patientId |-> p, providerId |-> r, granted |-> FALSE]

\* C3: while a record uploaded by provider r for patient p is in the store and
\* the registry's entry for (p, r) says revoked, every decryptRecord of that
\* record by r is answered AccessDenied and changes nothing, the record stays
\* in the store, and listRecords(p, r2) by another provider r2 with active
\* consent from p succeeds and lists that record.
C3_RevokeBlocksDecryptOnly ==
  [][ \A i \in 1..Len(records) :
        LET rec == records[i]
        IN RevokedEntry(rec.patientId, rec.providerId) =>
             /\ DecryptCall(rec.recordId, rec.providerId) =>
                  /\ response' = Failure(403, "access denied: no active consent")
                  /\ UNCHANGED <<consents, records, audit, ledgerFile, uploads>>
             /\ Len(records') >= i /\ records'[i] = rec
             /\ \A r2 \in ProviderIds \ {rec.providerId} :
                  GrantEntry(rec.patientId, r2) /\ ListCall(rec.patientId, r2) =>
                    /\ Succeeded(response')
                    /\ response'.kind = "records"
                    /\ \E k \in 1..Len(response'.body) :
                          response'.body[k].recordId = rec.recordId
    ]_vars

\* After the uploader's consent was revoked, another provider with active
\* consent has listed the patient's records, and a request has then been
\* denied for want of consent.
C3_Witness ==
  /\ response = Failure(403, "access denied: no active consent")
  /\ Len(records) > 0
  /\ RevokedEntry(records[1].patientId, records[1].providerId)
  /\ \E r2 \in ProviderIds \ {records[1].providerId} :
        /\ GrantEntry(records[1].patientId, r2)
        /\ audit[Len(audit)].action = "READ_RECORDS"
        /\ audit[Len(audit)].actor = r2
        /\ \E j \in 1..Len(audit) :
              /\ audit[j].action = "REVOKE_CONSENT"
              /\ audit[j].target = records[1].providerId

\* ---- C4 -----------------------------------------------------------------
\* C4: a successful call appends exactly one entry to the audit trail and
\* exactly one to the ledger, both with the transaction ID drawn for the call
\* (the one a JSON answer returns), which no earlier audit or ledger entry
\* carries.
C4_OneAuditOneLedgerPerSuccess ==
  [][ Succeeded(response') /\ AnyCall =>
        /\ Len(audit') = Len(audit) + 1
        /\ SubSeq(audit', 1, Len(audit)) = audit
        /\ Len(ledgerFile') = Len(ledgerFile) + 1
        /\ SubSeq(ledgerFile', 1, Len(ledgerFile)) = ledgerFile
        /\ audit'[Len(audit')].txId = ledgerFile'[Len(ledgerFile')].tx
        /\ audit'[Len(audit')].txId \notin TxOfAudit(audit) \cup TxOfLedger(ledgerFile)
        /\ response'.kind # "bytes" => response'.tx = audit'[Len(audit')].txId
    ]_vars

\* Three calls have succeeded, the latest a record upload.
C4_Witness ==
  /\ Succeeded(response) /\ response.kind = "record"
  /\ Len(audit) = 3 /\ Len(ledgerFile) = 3
  /\ audit[3].txId = response.tx /\ ledgerFile[3].tx = response.tx
  /\ ledgerFile[3].type = "RECORD_ADDED"

\* ---- C5 -----------------------------------------------------------------
InvalidArgument(resp) == resp.status = 400
AccessDenied(resp) == resp.status = 403
NotFound(resp) == resp = Failure(404, "record not found")
StorageMissing(resp) == resp = Failure(404, "encrypted file missing")
DecryptionFailed(resp) == resp = Failure(500, "decryption failed")

\* The Cipher fails on the stored blob of record id (padding check: luck).
CipherFails(id, luck) ==
  LET at == findRecord(records, id)
  IN /\ at # 0
     /\ blobExists(uploads, records[at].filename)
     /\ decryptBuffer(uploads[records[at].filename].data,
                      uploads[records[at].filename].iv, encKey, luck).threw

\* C5: a call that fails with InvalidArgument, AccessDenied, NotFound,
\* StorageMissing, or with DecryptionFailed on a cipher error, appends no audit
\* entry and no ledger entry and leaves the registry and the record store as
\* they were.
C5_FailuresWriteNothing ==
  [][ \/ InvalidArgument(response') \/ AccessDenied(response')
      \/ NotFound(response') \/ StorageMissing(response')
      \/ /\ DecryptionFailed(response')
         /\ \E id \in 0..nextFile, r \in AllProviders, luck \in BOOLEAN :
               /\ CipherFails(id, luck)
               /\ \E f \in DownloadFaults : decryptRecord(id, r, f, luck)
      => UNCHANGED <<audit, ledgerFile, consents, records>>
    ]_vars

\* A decrypt of a record whose blob was altered has failed in the Cipher,
\* after two calls that were logged.
C5_Witness ==
  /\ DecryptionFailed(response)
  /\ Len(audit) = 2 /\ Len(ledgerFile) = 2
  /\ Len(records) = 1
  /\ blobExists(uploads, records[1].filename)
  /\ ~uploads[records[1].filename].data.sound
  /\ hasConsent(consents, records[1].patientId, records[1].providerId)

\* ---- C6 -----------------------------------------------------------------
\* C6: the transaction IDs of the audit trail are those of the ledger entries
\* this process wrote (here: of the whole ledger, the process being the first
\* to write it).
C6_AuditAndLedgerPaired == TxOfAudit(audit) = TxOfLedger(ledgerFile)

\* ---- C7 -----------------------------------------------------------------
\* C7: an addRecord call that does not return success leaves the record store
\* as it was.
C7_AddRecordFailsAtomically ==
  [][ \A p \in AllPatients, r \in AllProviders :
        AddCall(p, r) /\ ~Succeeded(response') => records' = records ]_vars

\* ---- C8 -----------------------------------------------------------------
\* C8: a call returns success only when its audit entry and its ledger entry
\* are both written; a call whose audit entry is left without a ledger entry
\* (the ledger write failed after the state change) answers with a failure.
C8_NoSuccessWithoutBothEntries ==
  [][ /\ Succeeded(response') /\ AnyCall =>
           /\ Len(audit') = Len(audit) + 1
           /\ audit'[Len(audit')].txId \in TxOfLedger(ledgerFile')
           /\ audit'[Len(audit')].txId \notin TxOfLedger(ledgerFile)
      /\ audit' # audit /\ audit'[Len(audit')].txId \notin TxOfLedger(ledgerFile')
           => response'.status = 500 /\ response'.kind = "error"
    ]_vars

\* A consent change was applied and audited, its ledger write failed, and the
\* call was answered with a failure.
C8_Witness ==
  /\ response = Unhandled
  /\ Len(audit) > 0
  /\ audit[Len(audit)].txId \notin TxOfLedger(ledgerFile)
  /\ Len(consents) > 0

\* ---- C9 -----------------------------------------------------------------
\* C9: the ledger before a step is a prefix of the ledger after it.
C9_LedgerAppendOnly == [][IsPrefix(ledgerFile, ledgerFile')]_vars

\* ---- C10 ----------------------------------------------------------------
\* C10: a restart leaves the ledger file as it is, and every call, before or
\* after a restart, only appends to it: the entries written before a restart
\* stay, in order, in front of those written after it.
C10_LedgerSurvivesRestart ==
  [][ /\ encKey' # encKey => ledgerFile' = ledgerFile
      /\ Len(ledgerFile) <= Len(ledgerFile')
      /\ \A i \in 1..Len(ledgerFile) : ledgerFile'[i] = ledgerFile[i]
    ]_vars

\* After a restart the ledger holds two entries of the first process followed
\* by one of the second, which alone is in the audit trail.
C10_Witness ==
  /\ encKey = 2
  /\ Len(ledgerFile) = 3
  /\ Len(audit) = 1
  /\ audit[1].txId = ledgerFile[3].tx
  /\ ledgerFile[1].tx = 1 /\ ledgerFile[2].tx = 2

\* ---- C11 ----------------------------------------------------------------
\* The entries of the registry cs for the pair (p, r), and all the others.
EntriesOf(cs, p, r) ==
  SelectSeq(cs, LAMBDA c : c.patientId = p /\ c.providerId = r)
EntriesOfOthers(cs, p, r) ==
  SelectSeq(cs, LAMBDA c : ~(c.patientId = p /\ c.providerId = r))

\* C11: the registry never holds two entries for one (patientId, providerId)
\* pair; a grant or revoke for (p, r) leaves exactly one entry for (p, r), the
\* one it adds (with the call's boolean), and leaves the entries of all other
\* pairs as they were, in their order.
C11_OneEntryPerPair ==
  /\ consents = <<>>
  /\ [][ /\ \A p \in PatientIds, r \in ProviderIds :
              Len(EntriesOf(consents', p, r)) <= 1
         /\ consents' # consents =>
              \A p \in PatientIds, r \in ProviderIds :
                \A granted \in BOOLEAN :
                  (IF granted THEN GrantCall(p, r) ELSE RevokeCall(p, r)) =>
                    /\ EntriesOf(consents', p, r) =
                         <<[patientId |-> p, providerId |-> r, granted |-> granted]>>
                    /\ consents'[Len(consents')].patientId = p
                    /\ consents'[Len(consents')].providerId = r
                    /\ EntriesOfOthers(consents', p, r) = EntriesOfOthers(consents, p, r)
      ]_vars

\* A pair was granted and then revoked while another pair's entry stayed: the
\* registry holds two entries, the revoked pair's last.
C11_Witness ==
  /\ Len(consents) = 2 /\ Len(audit) = 3
  /\ \E p \in PatientIds, r \in ProviderIds :
       /\ audit[1].action = "GRANT_CONSENT" /\ audit[1].actor = p /\ audit[1].target = r
       /\ audit[2].action = "GRANT_CONSENT"
       /\ ~(audit[2].actor = p /\ audit[2].target = r)
       /\ audit[3].action = "REVOKE_CONSENT" /\ audit[3].actor = p /\ audit[3].target = r
       /\ consents[2] = [patientId |-> p, providerId |-> r, granted |-> FALSE]
       /\ consents[1].granted

\* ---- C12 ----------------------------------------------------------------
\* C12: (1) a successful addRecord(p, r, x) returns a record with a new
\* recordId whose blob is the encryption of x; (2) no request changes a stored
\* record or its blob; (3) while consent (p, r) is active, decryptRecord of a
\* record uploaded by r for p whose blob is the encryption of x answers the
\* bytes x.  Together: the round trip returns x, whatever was added in between.
C12_RoundTrip ==
  [][ /\ \A r \in ProviderIds, x \in TwoPayloads :
           Succeeded(response') /\ addRecord("pat-1", r, x, "none") =>
             LET rec == response'.body[1]
             IN /\ records' = Append(records, rec)
                /\ \A i \in 1..Len(records) : records[i].recordId # rec.recordId
                /\ blobExists(uploads', rec.filename)
                /\ uploads'[rec.filename] = encryptBuffer(x, encKey, rec.iv)
      /\ \A i \in 1..Len(records) :
           /\ Len(records') >= i /\ records'[i] = records[i]
           /\ Len(uploads') >= records[i].filename
           /\ uploads'[records[i].filename] = uploads[records[i].filename]
      /\ \A i \in 1..Len(records), x \in TwoPayloads :
           LET rec == records[i]
           IN /\ hasConsent(consents, rec.patientId, rec.providerId)
              /\ uploads[rec.filename] = encryptBuffer(x, encKey, rec.iv)
              /\ DecryptCall(rec.recordId, rec.providerId)
              => response' = OkBytes(x)
    ]_vars

\* Two records of different contents are stored and the first has been
\* decrypted, after the second was added, to the bytes that were uploaded.
C12_Witness ==
  /\ Len(records) = 2 /\ Len(audit) = 4
  /\ audit[2].action = "ADD_RECORD" /\ audit[3].action = "ADD_RECORD"
  /\ audit[4].action = "DOWNLOAD_DECRYPT" /\ audit[4].target = records[1].recordId
  /\ \E x \in TwoPayloads, y \in TwoPayloads :
       /\ x # y
       /\ uploads[records[1].filename] = encryptBuffer(x, encKey, records[1].iv)
       /\ uploads[records[2].filename] = encryptBuffer(y, encKey, records[2].iv)
       /\ response = OkBytes(x)

\* ---- C13 ----------------------------------------------------------------
\* The positions in the store recs of the records of patient p.
PositionsOf(recs, p) == {i \in 1..Len(recs) : recs[i].patientId = p}

\* C13: listRecords(p, r) with an entry granting (p, r) succeeds, and a
\* successful listRecords(p, r) answers one item for every record of the store
\* whose patientId is p and no other: its k-th item is the k-th of these
\* records in the order of the store, with that record's ID, patient, uploader
\* and file name, whoever uploaded it and whatever the uploader's consent now.
C13_ListIsPatientsRecords ==
  [][ \A p \in PatientIds, r \in ProviderIds :
        ListCall(p, r) =>
          /\ GrantEntry(p, r) => Succeeded(response')
          /\ Succeeded(response') =>
               /\ response'.kind = "records"
               /\ Len(response'.body) = Cardinality(PositionsOf(records, p))
               /\ \A i \in PositionsOf(records, p) :
                     LET k == Cardinality({j \in PositionsOf(records, p) : j <= i})
                         item == response'.body[k]
                     IN /\ item.recordId = records[i].recordId
                        /\ item.patientId = p
                        /\ item.providerId = records[i].providerId
                        /\ item.filename = records[i].filename
    ]_vars

\* A provider has listed a patient's records and got exactly the one record
\* of that patient, uploaded by another provider whose consent was revoked
\* before the listing.
C13_Witness ==
  /\ Succeeded(response) /\ response.kind = "records"
  /\ Len(response.body) = 1 /\ Len(records) = 1
  /\ response.body[1].recordId = records[1].recordId
  /\ audit[Len(audit)].action = "READ_RECORDS"
  /\ audit[Len(audit)].target = records[1].patientId
  /\ audit[Len(audit)].actor # records[1].providerId
  /\ RevokedEntry(records[1].patientId, records[1].providerId)

\* ---- C14 ----------------------------------------------------------------
\* C14: a grantConsent or revokeConsent with a non-empty patientId and a
\* non-empty providerId, in the patient and provider lists or not, succeeds
\* and returns the transaction ID it drew; with patientId or providerId
\* missing or empty it fails with InvalidArgument and leaves the registry, the
\* audit trail and the ledger as they were.
C14_ConsentChangeIsTotal ==
  [][ \A p \in AllPatients, r \in AllProviders :
        GrantCall(p, r) \/ RevokeCall(p, r) =>
          IF p # NoId /\ r # NoId
          THEN /\ Succeeded(response') /\ response'.kind = "tx"
               /\ nextTx' # nextTx /\ response'.tx = nextTx'
               /\ response'.tx = audit'[Len(audit')].txId
          ELSE /\ InvalidArgument(response')
               /\ UNCHANGED <<consents, audit, ledgerFile>>
    ]_vars

\* After a grant or revoke for a patient and a provider that are in neither
\* list has been applied and logged, a call without an identifier was refused.
C14_Witness ==
  /\ InvalidArgument(response)
  /\ Len(audit) = 2 /\ Len(ledgerFile) = 2
  /\ \E i \in 1..Len(consents) :
       /\ consents[i].patientId \notin patients \cup {NoId}
       /\ consents[i].providerId \notin providers \cup {NoId}

\* ---- C15 ----------------------------------------------------------------
\* The actions of the audit trail a, in order.
ActionsOf(a) == [i \in 1..Len(a) |-> a[i].action]
TypesOf(l) == [i \in 1..Len(l) |-> l[i].type]

\* The successful calls of this process were, in order: grantConsent(pat-1,
\* doc-1), addRecord by doc-1, decryptRecord by doc-1, revokeConsent(pat-1,
\* doc-1); and the latest call was denied for want of consent.
ScenarioDone ==
  /\ ActionsOf(audit) =
       <<"GRANT_CONSENT", "ADD_RECORD", "DOWNLOAD_DECRYPT", "REVOKE_CONSENT">>
  /\ audit[1].actor = "pat-1" /\ audit[1].target = "doc-1"
  /\ audit[2].actor = "doc-1" /\ audit[3].actor = "doc-1"
  /\ audit[3].target = audit[2].target
  /\ audit[4].actor = "pat-1" /\ audit[4].target = "doc-1"
  /\ response = Failure(403, "access denied: no active consent")

\* C15: the ledger starts empty; a call that does not succeed leaves it as it
\* is; a call that succeeds appends one entry, of the call's type and
\* subject, behind all earlier ones.  So after the denied addRecord, the
\* grantConsent, addRecord, decryptRecord, revokeConsent and the denied
\* decryptRecord of the scenario the ledger holds exactly four entries:
\* grant, add, decrypt, revoke.
C15_LedgerInCallOrder ==
  /\ ledgerFile = <<>>
  /\ [][ /\ ~Succeeded(response') => ledgerFile' = ledgerFile
         /\ Succeeded(response') =>
              /\ Len(ledgerFile') = Len(ledgerFile) + 1
              /\ SubSeq(ledgerFile', 1, Len(ledgerFile)) = ledgerFile
              /\ LET e == ledgerFile'[Len(ledgerFile')]
                 IN /\ \A p \in PatientIds, r \in ProviderIds :
                         /\ GrantCall(p, r) =>
                              /\ e.type = "CONSENT_GRANTED"
                              /\ e.patientId = p /\ e.providerId = r
                         /\ RevokeCall(p, r) =>
                              /\ e.type = "CONSENT_REVOKED"
                              /\ e.patientId = p /\ e.providerId = r
                         /\ AddCall(p, r) =>
                              /\ e.type = "RECORD_ADDED"
                              /\ e.recordId = response'.body[1].recordId
                         /\ ListCall(p, r) =>
                              /\ e.type = "READ_RECORDS"
                              /\ e.patientId = p /\ e.providerId = r
                    /\ \A id \in 1..nextFile, r \in ProviderIds :
                         DecryptCall(id, r) =>
                           /\ e.type = "DOWNLOAD_DECRYPT"
                           /\ e.recordId = id /\ e.actor = r
       ]_vars
  /\ [](ScenarioDone =>
          /\ Len(ledgerFile) = 4
          /\ TypesOf(ledgerFile) = <<"CONSENT_GRANTED", "RECORD_ADDED",
                                     "DOWNLOAD_DECRYPT", "CONSENT_REVOKED">>
          /\ ledgerFile[1].patientId = "pat-1" /\ ledgerFile[1].providerId = "doc-1"
          /\ ledgerFile[2].recordId = audit[2].target
          /\ ledgerFile[3].recordId = audit[2].target
          /\ ledgerFile[4].patientId = "pat-1" /\ ledgerFile[4].providerId = "doc-1")

\* The scenario has been run to its end: four calls have succeeded, the sixth
\* was denied, and the ledger holds four entries.
C15_Witness ==
  /\ ScenarioDone
  /\ Len(ledgerFile) = 4 /\ nextTx = 4
  /\ consents = <<[patientId |-> "pat-1", providerId |-> "doc-1", granted |-> FALSE]>>
  /\ Len(records) = 1

\* ---- C16 ----------------------------------------------------------------
\* The transaction IDs of the audit trail a, and of the ledger l, in order.
TxSeqOfAudit(a) == [i \in 1..Len(a) |-> a[i].txId]
TxSeqOfLedger(l) == [i \in 1..Len(l) |-> l[i].tx]

\* C16: whatever the order in which the handlers of the requests at hand run,
\* each append keeps every entry the ledger held (no lost update), the entry
\* of every successful call is in the ledger when the call has answered, and
\* the ledger lists the transaction IDs in the order of the audit trail.
C16_AppendsSerialized ==
  /\ [](TxSeqOfLedger(ledgerFile) = TxSeqOfAudit(audit))
  /\ [][ /\ IsPrefix(ledgerFile, ledgerFile')
         /\ Succeeded(response') =>
              /\ Len(audit') > 0
              /\ audit'[Len(audit')].txId \in TxOfLedger(ledgerFile')
              /\ response'.kind # "bytes" => response'.tx \in TxOfLedger(ledgerFile')
       ]_vars

\* Requests of two patients with two providers have been served one after
\* the other: the ledger holds the entries of all three, in the order of the
\* audit trail.
C16_Witness ==
  /\ Len(ledgerFile) = 3 /\ Len(audit) = 3
  /\ TxSeqOfLedger(ledgerFile) = TxSeqOfAudit(audit)
  /\ ledgerFile[1].type = "CONSENT_GRANTED" /\ ledgerFile[2].type = "CONSENT_GRANTED"
  /\ ledgerFile[1].patientId # ledgerFile[2].patientId
  /\ ledgerFile[1].providerId # ledgerFile[2].providerId
  /\ ledgerFile[3].type = "RECORD_ADDED"

\* ---- C17 ----------------------------------------------------------------
\* The positions of the consent entries for (p, r) in the audit trail a and
\* in the ledger l.
ConsentAudits(a, p, r) ==
  {i \in 1..Len(a) : /\ a[i].action \in {"GRANT_CONSENT", "REVOKE_CONSENT"}
                     /\ a[i].actor = p /\ a[i].target = r}
ConsentLedgers(l, p, r) ==
  {i \in 1..Len(l) : /\ l[i].type \in {"CONSENT_GRANTED", "CONSENT_REVOKED"}
                     /\ l[i].patientId = p /\ l[i].providerId = r}
Latest(S) == CHOOSE i \in S : \A j \in S : j <= i

\* C17: in every state between two handlers (the states a request can see),
\* for every pair (p, r): the registry holds an entry for (p, r) exactly when
\* the audit trail holds a consent entry for it, and then the ledger holds one
\* too, and the entry's granted flag is true exactly when the latest of these
\* audit entries is GRANT_CONSENT and the latest of these ledger entries is
\* CONSENT_GRANTED.
C17_NoTornConsentView ==
  \A p \in PatientIds, r \in ProviderIds :
    LET inAudit == ConsentAudits(audit, p, r)
        inLedger == ConsentLedgers(ledgerFile, p, r)
    IN /\ (EntriesOf(consents, p, r) # <<>>) = (inAudit # {})
       /\ inAudit # {} =>
            /\ inLedger # {}
            /\ hasConsent(consents, p, r) = EntriesOf(consents, p, r)[1].granted
            /\ hasConsent(consents, p, r) =
                 (audit[Latest(inAudit)].action = "GRANT_CONSENT")
            /\ hasConsent(consents, p, r) =
                 (ledgerFile[Latest(inLedger)].type = "CONSENT_GRANTED")
            /\ ledgerFile[Latest(inLedger)].tx = audit[Latest(inAudit)].txId

\* A pair was granted and then revoked and another pair is granted: audit
\* trail and ledger hold two consent entries for the first pair, the later
\* one the revocation, and the registry says revoked.
C17_Witness ==
  \E p \in PatientIds, r \in ProviderIds :
    /\ Cardinality(ConsentLedgers(ledgerFile, p, r)) = 2
    /\ Cardinality(ConsentAudits(audit, p, r)) = 2
    /\ ledgerFile[Latest(ConsentLedgers(ledgerFile, p, r))].type = "CONSENT_REVOKED"
    /\ ~hasConsent(consents, p, r)
    /\ \E q \in PatientIds, s \in ProviderIds :
         <<q, s>> # <<p, r>> /\ hasConsent(consents, q, s)

\* ---- C18 ----------------------------------------------------------------
\* C18: decryptRecord(id, r) answers InvalidArgument when r is missing;
\* otherwise NotFound when no record has the ID id; otherwise AccessDenied
\* when the registry has no entry granting (the record's patient, r), whether
\* the blob is there, deleted or altered; otherwise StorageMissing when the
\* blob is not there; otherwise DecryptionFailed when the Cipher fails on it.
C18_DecryptFailureOrder ==
  [][ \A id \in 0..nextFile, r \in AllProviders :
        UNCHANGED <<consents, records, uploads>> /\ DecryptCall(id, r) =>
          IF r = NoId THEN InvalidArgument(response')
          ELSE IF \A i \in 1..Len(records) : records[i].recordId # id
          THEN NotFound(response')
          ELSE \A i \in 1..Len(records) :
                 records[i].recordId = id =>
                   IF ~GrantEntry(records[i].patientId, r)
                   THEN AccessDenied(response')
                   ELSE IF ~blobExists(uploads, records[i].filename)
                   THEN StorageMissing(response')
                   ELSE \A luck \in BOOLEAN :
                          /\ CipherFails(id, luck)
                          /\ \E f \in DownloadFaults : decryptRecord(id, r, f, luck)
                          => DecryptionFailed(response')
    ]_vars

\* A decrypt of a stored record whose blob is gone, by the uploader whose
\* consent is revoked, has been answered AccessDenied.
C18_Witness ==
  /\ response = Failure(403, "access denied: no active consent")
  /\ Len(records) = 1
  /\ ~blobExists(uploads, records[1].filename)
  /\ RevokedEntry(records[1].patientId, records[1].providerId)
  /\ Len(audit) = 3

\* ---- C19 ----------------------------------------------------------------
\* C19: a decryptRecord that answers DecryptionFailed has appended no audit
\* entry and has not recovered the plaintext: the blob could not be read or
\* the Cipher failed on it; a failure of the ledger append after a successful
\* decryption is not answered DecryptionFailed.
C19_DecryptionFailedMeansCipherFailed ==
  [][ \A id \in 0..nextFile, r \in AllProviders,
         f \in DownloadFaults, luck \in BOOLEAN :
        decryptRecord(id, r, f, luck) /\ DecryptionFailed(response') =>
          /\ audit' = audit
          /\ f = "readBlob" \/ CipherFails(id, luck)
    ]_vars

\* ---- C20 ----------------------------------------------------------------
\* No grantConsent has been made since the process was last started.
NoGrantSinceStart == \A i \in 1..Len(audit) : audit[i].action # "GRANT_CONSENT"

\* C20: a restart empties the consent registry, the record store and the
\* audit trail and leaves the ledger as it is, so that no pair is active; and
\* after a restart, as long as no grantConsent has been made, every
\* addRecord, listRecords and decryptRecord is refused and changes nothing:
\* addRecord and listRecords with AccessDenied (an addRecord without a file
\* with InvalidArgument), decryptRecord with NotFound.
C20_RestartFailsClosed ==
  [][ /\ encKey' # encKey =>
           /\ consents' = <<>> /\ records' = <<>> /\ audit' = <<>>
           /\ ledgerFile' = ledgerFile
           /\ \A p \in PatientIds, r \in ProviderIds : ~hasConsent(consents', p, r)
      /\ encKey > 1 /\ encKey' = encKey /\ NoGrantSinceStart =>
           \A p \in PatientIds, r \in ProviderIds :
             /\ \A file \in AllFiles :
                  addRecord(p, r, file, "none") =>
                    /\ IF file = NoFile THEN InvalidArgument(response')
                       ELSE AccessDenied(response')
                    /\ UNCHANGED <<consents, records, audit, ledgerFile, uploads>>
             /\ ListCall(p, r) =>
                  /\ AccessDenied(response')
                  /\ UNCHANGED <<consents, records, audit, ledgerFile, uploads>>
             /\ \A id \in 0..nextFile :
                  DecryptCall(id, r) =>
                    /\ NotFound(response')
                    /\ UNCHANGED <<consents, records, audit, ledgerFile, uploads>>
    ]_vars

\* After a restart the ledger's latest entry for the pair is CONSENT_GRANTED
\* and the ledger holds the upload of a record; the decrypt of that record
\* has been answered NotFound, registry, store and audit trail being empty.
C20_Witness ==
  /\ encKey = 2
  /\ consents = <<>> /\ records = <<>> /\ audit = <<>>
  /\ NotFound(response)
  /\ Len(ledgerFile) = 2
  /\ ledgerFile[1].type = "CONSENT_GRANTED" /\ ledgerFile[2].type = "RECORD_ADDED"
  /\ ConsentLedgers(ledgerFile, "pat-1", "doc-1") = {1}
====
